---- MODULE Spec2Model ----
(***************************************************************************)
(* Model of the memory engine of core-conversation (src/lib/memory.ts):    *)
(* the per-session record files, the promise-chain lock of withMemoryLock, *)
(* and the getMemory / updateMemory calls made by the API routes.          *)
(*                                                                         *)
(* Node runs one event-loop task (a request arriving, an I/O operation    *)
(* completing) and then every promise continuation that task makes        *)
(* runnable, before it takes the next task.  Each action below is one     *)
(* such task with its continuations: a call moves from one suspension on  *)
(* I/O to the next.  ensureMemoryDir's mkdir, which precedes every        *)
(* readFile and writeFile, is part of the I/O step it precedes: a failed  *)
(* mkdir is a failed read or a failed open.                               *)
(***************************************************************************)
EXTENDS Integers, Sequences, FiniteSets, TLC

\* ------------------------------------------------------------------ bounds
MaxCalls == 2       \* number of getMemory / updateMemory calls in a run
MaxClock == 1       \* the clock readings run from 0 to MaxClock
MaxMerges == 2      \* number of applyMemoryUpdate calls in a run
MaxLen == 3         \* length of the strings given to sanitizeSessionId

Calls == 1..MaxCalls

\* ------------------------------------------------------- session identifiers
\* Strings are sequences of one-character strings.
SafeChars ==
  { "a","b","c","d","e","f","g","h","i","j","k","l","m",
    "n","o","p","q","r","s","t","u","v","w","x","y","z",
    "A","B","C","D","E","F","G","H","I","J","K","L","M",
    "N","O","P","Q","R","S","T","U","V","W","X","Y","Z",
    "0","1","2","3","4","5","6","7","8","9","_","-" }

Anonymous == << "a","n","o","n","y","m","o","u","s" >>

\* sessionId.replace(/[^a-zA-Z0-9_-]/g, "")
RECURSIVE StripUnsafe(_)
StripUnsafe(s) ==
  IF s = << >> THEN << >>
  ELSE IF Head(s) \in SafeChars
       THEN << Head(s) >> \o StripUnsafe(Tail(s))
       ELSE StripUnsafe(Tail(s))

\* A variant without the fallback key.
sanitizeSessionIdNoFallback(sessionId) == StripUnsafe(sessionId)

sanitizeSessionId(sessionId) ==
  LET safe == StripUnsafe(sessionId)
  IN  IF Len(safe) > 0 THEN safe ELSE Anonymous

\* The strings given to sanitizeSessionId: every string of up to MaxLen of
\* these characters, and the fallback key itself.
InputChars == { "a", "Z", "7", "_", "-", ".", "/", "\\", " " }
Inputs ==
  UNION { [ 1..n -> InputChars ] : n \in 0..MaxLen } \cup { Anonymous }

\* The raw identifiers callers supply: two of them collide after sanitizing.
SessionIds == { << "a" >>, << "a", "/" >>, << "b" >> }

Keys == { sanitizeSessionId(s) : s \in SessionIds }

\* --------------------------------------------------------------- the record
NULL == "null"

\* A variant that stores the fallback key as user.id, whatever the key.
createEmptyMemoryAnonymous(sessionId, now) ==
  [ user         |-> [ id |-> Anonymous, name |-> NULL, email |-> NULL ],
    social       |-> [ instagram |-> [ handle |-> NULL, url |-> NULL, posts |-> << >> ],
                       linkedin  |-> [ profileUrl |-> NULL, activities |-> << >> ] ],
    psychoTree   |-> [ leaves |-> << >>, branches |-> << >>,
                       trunk |-> << >>, roots |-> << >> ],
    transcript   |-> << >>,
    lastFollowup |-> << >>,
    createdAt    |-> now,
    updatedAt    |-> now ]

createEmptyMemory(sessionId, now) ==
  [ user         |-> [ id |-> sessionId, name |-> NULL, email |-> NULL ],
    social       |-> [ instagram |-> [ handle |-> NULL, url |-> NULL, posts |-> << >> ],
                       linkedin  |-> [ profileUrl |-> NULL, activities |-> << >> ] ],
    psychoTree   |-> [ leaves |-> << >>, branches |-> << >>,
                       trunk |-> << >>, roots |-> << >> ],
    transcript   |-> << >>,
    lastFollowup |-> << >>,          \* << >> is null, << signal >> is a signal
    createdAt    |-> now,
    updatedAt    |-> now ]

\* A placeholder of the record's shape, for "no record here".
NoMemory == createEmptyMemory(<< >>, 0)

\* A variant that keeps the new entry only.
appendTranscriptEntryOnly(memory, entry) ==
  [ memory EXCEPT !.transcript = << entry >> ]

\* A variant that also stamps the record with the time of the entry.
appendTranscriptEntryStamped(memory, entry) ==
  [ memory EXCEPT !.transcript = Append(@, entry), !.updatedAt = entry.timestamp ]

\* memory.transcript.push(entry); return memory
appendTranscriptEntry(memory, entry) ==
  [ memory EXCEPT !.transcript = Append(@, entry) ]

\* The transcript turn the updater of call c appends (api/memory POST and
\* api/analyze-answer POST): the content identifies the call.
TurnOf(c, now) == [ role |-> "user", content |-> c, timestamp |-> now ]

\* -------------------------------------------------------- applyMemoryUpdate
\* Optional values.  A scalar (name, handle, date, ...) is a string, with
\* UNDEFINED for an absent property and NULL for null.  A text that is
\* compared by its characters, a list and a nested object are wrapped:
\* None is absent or null, Some(x) is the value x.
UNDEFINED == "undefined"
None == << >>
Some(x) == << x >>

\* if (value): the value is not undefined, not null and not "".
Truthy(v) == v \notin { UNDEFINED, NULL, "" }

\* if (!item?.text), if (!entry?.answer): a present, non-empty text.
HasText(o) == o # None /\ o[1] # << >>

\* A text that is not a string: the update is JSON from the language model,
\* cast to MemoryUpdate unchecked (analyze-answer/route.ts:137), and may hold
\* a number where a text belongs.
NonString == << "[number]" >>

\* value ?? null
OrNull(v) == IF v = UNDEFINED THEN NULL ELSE v

UpperCase ==
  << "A","B","C","D","E","F","G","H","I","J","K","L","M",
     "N","O","P","Q","R","S","T","U","V","W","X","Y","Z" >>
LowerCase ==
  << "a","b","c","d","e","f","g","h","i","j","k","l","m",
     "n","o","p","q","r","s","t","u","v","w","x","y","z" >>

\* String.prototype.toLowerCase, character by character.
RECURSIVE toLowerCase(_)
toLowerCase(s) ==
  IF s = << >> THEN << >>
  ELSE LET ch == Head(s)
           lc == IF \E j \in DOMAIN UpperCase : UpperCase[j] = ch
                 THEN LowerCase[CHOOSE j \in DOMAIN UpperCase : UpperCase[j] = ch]
                 ELSE ch
       IN  << lc >> \o toLowerCase(Tail(s))

\* randomUUID(): an identifier no other item has; here the list it is issued
\* for and the item's position in the list.
randomUUID(owner, n) == << owner, n >>

\* new Set(list.map((item) => item.text.toLowerCase()))
TextKeys(items) == { toLowerCase(items[i].text) : i \in DOMAIN items }

\* A variant that compares the texts as they are written.
pushItemsExact(items, existing, incoming, owner) ==
  LET RECURSIVE Push(_, _, _)
      Push(list, seen, rest) ==
        IF rest = << >> THEN list
        ELSE LET item == Head(rest)
             IN  IF ~ HasText(item.text) THEN Push(list, seen, Tail(rest))
                 ELSE IF item.text[1] \in { list[i].text : i \in DOMAIN list }
                      THEN Push(list, seen, Tail(rest))
                      ELSE Push(Append(list,
                                  [ id   |-> randomUUID(owner, Len(list) + 1),
                                    text |-> item.text[1],
                                    date |-> OrNull(item.date),
                                    url  |-> OrNull(item.url) ]),
                                seen, Tail(rest))
  IN  Push(items, existing, incoming)

\* A variant that puts a new item in front of the list.
pushItemsFirst(items, existing, incoming, owner) ==
  LET RECURSIVE Push(_, _, _)
      Push(list, seen, rest) ==
        IF rest = << >> THEN list
        ELSE LET item == Head(rest)
             IN  IF ~ HasText(item.text) THEN Push(list, seen, Tail(rest))
                 ELSE LET key == toLowerCase(item.text[1])
                      IN  IF key \in seen THEN Push(list, seen, Tail(rest))
                          ELSE Push(<< [ id   |-> randomUUID(owner, Len(list) + 1),
                                         text |-> item.text[1],
                                         date |-> OrNull(item.date),
                                         url  |-> OrNull(item.url) ] >> \o list,
                                    seen \cup { key }, Tail(rest))
  IN  Push(items, existing, incoming)

\* A variant that pushes every item that has a text.
pushItemsAlways(items, existing, incoming, owner) ==
  LET RECURSIVE Push(_, _)
      Push(list, rest) ==
        IF rest = << >> THEN list
        ELSE LET item == Head(rest)
             IN  IF ~ HasText(item.text) THEN Push(list, Tail(rest))
                 ELSE Push(Append(list,
                             [ id   |-> randomUUID(owner, Len(list) + 1),
                               text |-> item.text[1],
                               date |-> OrNull(item.date),
                               url  |-> OrNull(item.url) ]),
                           Tail(rest))
  IN  Push(items, incoming)

\* instagram.posts.forEach(...) and linkedin.activities.forEach(...): an item
\* without text is skipped, an item whose lower-cased text is in existing is
\* skipped, any other is recorded in existing and pushed.
pushItems(items, existing, incoming, owner) ==
  LET RECURSIVE Push(_, _, _)
      Push(list, seen, rest) ==
        IF rest = << >> THEN list
        ELSE LET item == Head(rest)
             IN  IF ~ HasText(item.text) THEN Push(list, seen, Tail(rest))
                 ELSE LET key == toLowerCase(item.text[1])
                      IN  IF key \in seen THEN Push(list, seen, Tail(rest))
                          ELSE Push(Append(list,
                                      [ id   |-> randomUUID(owner, Len(list) + 1),
                                        text |-> item.text[1],
                                        date |-> OrNull(item.date),
                                        url  |-> OrNull(item.url) ]),
                                    seen \cup { key }, Tail(rest))
  IN  Push(items, existing, incoming)

\* `${entry.question ?? ""}:${entry.answer}`.toLowerCase()
EntryKey(question, answer) ==
  toLowerCase((IF question = None THEN << >> ELSE question[1])
              \o << ":" >> \o answer)

\* new Set(memory.psychoTree[layer].map(...))
EntryKeys(entries) ==
  { EntryKey(entries[i].question, entries[i].answer) : i \in DOMAIN entries }

\* The confidence of an incoming entry: a number or a value of another type.
Number(n)   == [ type |-> "number", value |-> n ]
NotANumber  == [ type |-> "undefined", value |-> 0 ]
NullNumber  == [ type |-> "null", value |-> 0 ]

\* A variant that compares the entries by their answers only.
pushEntriesByAnswer(stored, existingKeys, entries, layer, t) ==
  LET RECURSIVE Push(_, _, _)
      Push(list, seen, rest) ==
        IF rest = << >> THEN list
        ELSE LET entry == Head(rest)
             IN  IF ~ HasText(entry.answer) THEN Push(list, seen, Tail(rest))
                 ELSE IF entry.answer[1] \in { list[i].answer : i \in DOMAIN list }
                      THEN Push(list, seen, Tail(rest))
                      ELSE Push(Append(list,
                                  [ id         |-> randomUUID(layer, Len(list) + 1),
                                    layer      |-> layer,
                                    question   |-> entry.question,
                                    answer     |-> entry.answer[1],
                                    evidence   |-> OrNull(entry.evidence),
                                    tags       |-> IF entry.tags = None THEN << >>
                                                   ELSE SelectSeq(entry.tags[1], Truthy),
                                    confidence |-> IF entry.confidence.type = "number"
                                                   THEN entry.confidence
                                                   ELSE NullNumber,
                                    timestamp  |-> t ]),
                                seen, Tail(rest))
  IN  Push(stored, existingKeys, entries)

\* entries.forEach(...): an entry without answer is skipped, an entry whose
\* key is in existingKeys is skipped, any other is recorded and pushed.
pushEntries(stored, existingKeys, entries, layer, t) ==
  LET RECURSIVE Push(_, _, _)
      Push(list, seen, rest) ==
        IF rest = << >> THEN list
        ELSE LET entry == Head(rest)
             IN  IF ~ HasText(entry.answer) THEN Push(list, seen, Tail(rest))
                 ELSE LET key == EntryKey(entry.question, entry.answer[1])
                      IN  IF key \in seen THEN Push(list, seen, Tail(rest))
                          ELSE Push(Append(list,
                                      [ id         |-> randomUUID(layer, Len(list) + 1),
                                        layer      |-> layer,
                                        question   |-> entry.question,
                                        answer     |-> entry.answer[1],
                                        evidence   |-> OrNull(entry.evidence),
                                        tags       |-> IF entry.tags = None THEN << >>
                                                       ELSE SelectSeq(entry.tags[1], Truthy),
                                        confidence |-> IF entry.confidence.type = "number"
                                                       THEN entry.confidence
                                                       ELSE NullNumber,
                                        timestamp  |-> t ]),
                                    seen \cup { key }, Tail(rest))
  IN  Push(stored, existingKeys, entries)

\* const layers: PsychoLayer[] = ["leaves", "branches", "trunk", "roots"]
layers == << "leaves", "branches", "trunk", "roots" >>

\* A variant in which a layer with incoming entries empties the layer that
\* follows it.
RECURSIVE forEachLayerSpill(_, _, _, _)
forEachLayerSpill(memory, tree, rest, t) ==
  IF rest = << >> THEN memory
  ELSE LET layer   == Head(rest)
           entries == tree[layer]
       IN  IF entries = None \/ entries[1] = << >>
           THEN forEachLayerSpill(memory, tree, Tail(rest), t)
           ELSE forEachLayerSpill(
                  [ memory EXCEPT
                      !.psychoTree = [ l \in DOMAIN @ |->
                        IF l = layer
                        THEN pushEntries(@[l], EntryKeys(@[l]), entries[1], layer, t)
                        ELSE IF Tail(rest) # << >> /\ l = Head(Tail(rest))
                             THEN << >> ELSE @[l] ] ],
                  tree, Tail(rest), t)

\* layers.forEach((layer) => { ... }): the layers of the update are merged one
\* after the other into the record.
RECURSIVE forEachLayer(_, _, _, _)
forEachLayer(memory, tree, rest, t) ==
  IF rest = << >> THEN memory
  ELSE LET layer   == Head(rest)
           entries == tree[layer]
       IN  IF entries = None \/ entries[1] = << >>
           THEN forEachLayer(memory, tree, Tail(rest), t)
           ELSE forEachLayer(
                  [ memory EXCEPT
                      !.psychoTree[layer] =
                        pushEntries(@, EntryKeys(@), entries[1], layer, t) ],
                  tree, Tail(rest), t)

\* A variant of the identity test that lets an empty string through.
OverwritesOrEmpty(v) == v \notin { UNDEFINED, NULL }

\* if (update.user?.name), if (update.user?.email): the stored value is
\* overwritten by a truthy value only.
Overwrites(v) == Truthy(v)

\* A variant in which no update makes the call throw.
applyMemoryUpdateThrowsNever(update) == FALSE

\* post.text.toLowerCase() and activity.text.toLowerCase() throw a TypeError
\* when the text passed the test !post?.text and is not a string.
applyMemoryUpdateThrows(update) ==
  LET posts == IF update.social = None THEN << >>
               ELSE IF update.social[1].instagram = None THEN << >>
               ELSE IF update.social[1].instagram[1].posts = None THEN << >>
               ELSE update.social[1].instagram[1].posts[1]
      activities == IF update.social = None THEN << >>
                    ELSE IF update.social[1].linkedin = None THEN << >>
                    ELSE IF update.social[1].linkedin[1].activities = None THEN << >>
                    ELSE update.social[1].linkedin[1].activities[1]
  IN  \/ \E i \in DOMAIN posts : posts[i].text = Some(NonString)
      \/ \E i \in DOMAIN activities : activities[i].text = Some(NonString)

\* applyMemoryUpdate(memory, update); t is the reading of the clock that
\* stamps the new psycho-tree entries.
applyMemoryUpdate(memory, update, t) ==
  LET name  == IF update.user = None THEN UNDEFINED ELSE update.user[1].name
      email == IF update.user = None THEN UNDEFINED ELSE update.user[1].email
      m1 == IF Overwrites(name) THEN [ memory EXCEPT !.user.name = name ] ELSE memory
      m2 == IF Overwrites(email) THEN [ m1 EXCEPT !.user.email = email ] ELSE m1
      instagram == IF update.social = None THEN None
                   ELSE update.social[1].instagram
      m3 == IF instagram = None THEN m2
            ELSE [ m2 EXCEPT !.social.instagram =
                     [ handle |-> IF Truthy(instagram[1].handle)
                                  THEN instagram[1].handle ELSE @.handle,
                       url    |-> IF Truthy(instagram[1].url)
                                  THEN instagram[1].url ELSE @.url,
                       posts  |-> IF instagram[1].posts = None THEN @.posts
                                  ELSE pushItems(@.posts, TextKeys(@.posts),
                                                 instagram[1].posts[1], "post") ] ]
      linkedin == IF update.social = None THEN None
                  ELSE update.social[1].linkedin
      m4 == IF linkedin = None THEN m3
            ELSE [ m3 EXCEPT !.social.linkedin =
                     [ profileUrl |-> IF Truthy(linkedin[1].profileUrl)
                                      THEN linkedin[1].profileUrl ELSE @.profileUrl,
                       activities |-> IF linkedin[1].activities = None
                                      THEN @.activities
                                      ELSE pushItems(@.activities,
                                                     TextKeys(@.activities),
                                                     linkedin[1].activities[1],
                                                     "activity") ] ]
  IN  IF update.psychoTree = None THEN m4
      ELSE forEachLayer(m4, update.psychoTree[1], layers, t)

\* ---------------------------------------------------------------- the updates
\* The updates (MemoryUpdate values) that callers pass to applyMemoryUpdate.
NoUpdate == [ user |-> None, social |-> None, psychoTree |-> None ]

Hi == << "H", "i" >>
hi == << "h", "i" >>
yo == << "y", "o" >>

Item(text) == [ text |-> text, date |-> UNDEFINED, url |-> UNDEFINED ]

ItemLists ==
  { << >>,
    << Item(Some(Hi)) >>,
    << Item(Some(Hi)), Item(Some(hi)) >>,
    << Item(Some(hi)), Item(Some(yo)) >>,
    << Item(None), [ text |-> Some(yo), date |-> "2024-05-01", url |-> NULL ] >>,
    << Item(Some(<< >>)), Item(Some(Hi)) >> }

UserUpdates ==
  { [ name |-> n, email |-> UNDEFINED ] : n \in { UNDEFINED, NULL, "", "Ann", "Bob" } }
  \cup { [ name |-> UNDEFINED, email |-> e ] : e \in { NULL, "", "ann@example.com" } }

InstagramUpdates ==
  { [ handle |-> h, url |-> UNDEFINED, posts |-> None ] : h \in { NULL, "", "@ann" } }
  \cup { [ handle |-> UNDEFINED, url |-> "ig.example/ann", posts |-> Some(l) ] :
           l \in ItemLists }

LinkedinUpdates ==
  { [ profileUrl |-> p, activities |-> None ] : p \in { "", "li.example/ann" } }
  \cup { [ profileUrl |-> UNDEFINED, activities |-> Some(l) ] : l \in ItemLists }

QUE == << "Q" >>
que == << "q" >>
ANS == << "A" >>
ans == << "a" >>

Entry(question, answer) ==
  [ question |-> question, answer |-> answer, evidence |-> UNDEFINED,
    tags |-> None, confidence |-> NotANumber ]

EntryLists ==
  { << >>,
    << Entry(Some(QUE), Some(ANS)) >>,
    << Entry(Some(QUE), Some(ANS)), Entry(Some(que), Some(ans)) >>,
    << Entry(None, Some(ANS)), Entry(Some(<< >>), Some(ans)) >>,
    << Entry(Some(QUE), None),
       [ question |-> None, answer |-> Some(ans), evidence |-> "said so",
         tags |-> Some(<< "family", "" >>), confidence |-> Number(1) ] >>,
    << Entry(Some(<< "Q", ":", "A" >>), Some(ANS)),
       Entry(Some(QUE), Some(<< "A", ":", "A" >>)) >> }

NoTree == [ l \in { layers[i] : i \in DOMAIN layers } |-> None ]

TreeUpdates ==
  { [ NoTree EXCEPT ![l] = Some(es) ] :
      l \in { layers[i] : i \in DOMAIN layers }, es \in EntryLists }
  \cup { [ NoTree EXCEPT !["leaves"] = Some(<< Entry(Some(QUE), Some(ANS)) >>),
                         !["roots"]  = Some(<< Entry(None, Some(ans)) >>) ] }

Updates ==
  { NoUpdate }
  \cup { [ NoUpdate EXCEPT !.user = Some(u) ] : u \in UserUpdates }
  \cup { [ NoUpdate EXCEPT !.social = Some([ instagram |-> Some(i), linkedin |-> None ]) ] :
           i \in InstagramUpdates }
  \cup { [ NoUpdate EXCEPT !.social = Some([ instagram |-> None, linkedin |-> Some(l) ]) ] :
           l \in LinkedinUpdates }
  \cup { [ NoUpdate EXCEPT !.psychoTree = Some(tr) ] : tr \in TreeUpdates }
  \cup { [ user       |-> Some([ name |-> "Ann", email |-> "" ]),
           social     |-> Some([ instagram |-> Some([ handle |-> "@ann", url |-> NULL,
                                                      posts |-> Some(<< Item(Some(hi)) >>) ]),
                                 linkedin  |-> Some([ profileUrl |-> NULL,
                                                      activities |-> Some(<< Item(Some(Hi)) >>) ]) ]),
           psychoTree |-> Some([ NoTree EXCEPT !["trunk"] = Some(<< Entry(Some(que), Some(ANS)) >>) ]) ] }

\* Updates with a text that is not a string, next to well-formed items.
MalformedUpdates ==
  { [ NoUpdate EXCEPT !.social =
        Some([ instagram |-> Some([ handle |-> UNDEFINED, url |-> UNDEFINED,
                                    posts |-> Some(<< Item(Some(Hi)),
                                                      Item(Some(NonString)) >>) ]),
               linkedin  |-> None ]) ],
    [ user       |-> Some([ name |-> "Ann", email |-> UNDEFINED ]),
      social     |-> Some([ instagram |-> None,
                            linkedin  |-> Some([ profileUrl |-> UNDEFINED,
                                                 activities |->
                                                   Some(<< Item(Some(NonString)) >>) ]) ]),
      psychoTree |-> Some([ NoTree EXCEPT !["leaves"] = Some(<< Entry(Some(QUE), Some(ANS)) >>) ]) ] }

\* ------------------------------------------------------------------ promises
\* A promise is named by the place that creates it.
ResolvedPromise == << "resolved", 0 >>     \* Promise.resolve()
NoEntry         == << "none", 0 >>         \* memoryLocks.get(k) === undefined
NextPromise(c)  == << "next", c >>         \* new Promise(resolve => release = resolve)
ChainPromise(c) == << "chain", c >>        \* current.then(() => next)

\* --------------------------------------------------------------- the files
Absent == [ status |-> "absent", data |-> NoMemory ]
Torn   == [ status |-> "torn",   data |-> NoMemory ]   \* opened with O_TRUNC, not yet written
\* A variant that writes the record with its old time stamp.
StoredStale(memory) ==
  [ status |-> "ok", data |-> [ memory EXCEPT !.updatedAt = memory.createdAt ] ]

Stored(memory) == [ status |-> "ok", data |-> memory ]

VARIABLES
  file,           \* key -> the content of data/memory/<key>.json
  memoryLocks,    \* key -> the promise stored in the memoryLocks map, or NoEntry
  nextResolved,   \* call -> release() of the call's next promise was called
  current,        \* call -> the promise the call awaits before running fn
  pc,             \* call -> the I/O the call is suspended on
  kind,           \* call -> "get" | "update" | "none"
  sid,            \* call -> the raw session id of the call
  mem,            \* call -> the record the call holds in memory
  fnOutcome,      \* call -> how fn settled: "none" | "ok" | "fail"
  result,         \* call -> what the caller received: [status, data]
  now,            \* the last reading of the clock
  ran,            \* call -> number of times fn was started
  loaded,         \* call -> the record that was passed to the call's updater
  before,         \* call -> the file of the call's key when the call's fn started
  admitted,       \* key -> calls in the order they called withMemoryLock
  entered,        \* key -> calls in the order they started fn
  completed,      \* key -> calls in the order fn settled
  defaultWrites,  \* key -> number of default records written to the file
  lastStored,     \* key -> the last record that was completely written
  overlapped,     \* key -> a call for the key began while another was running
  record,         \* the record that applyMemoryUpdate is applied to
  prior,          \* the record before the last applyMemoryUpdate call
  fragment,       \* the update of the last applyMemoryUpdate call
  merges,         \* number of applyMemoryUpdate calls that returned
  failed,         \* an applyMemoryUpdate call threw: the caller drops the record
  extraction,     \* call -> the update an analyze-answer request merges, or None
  followup,       \* call -> the follow-up signal of the request, or None
  layerCounts,    \* call -> the layer counts given to the follow-up step, or None
  turn,           \* the entry of the last call, if it was appendTranscriptEntry
  input,          \* the last string given to sanitizeSessionId
  output          \* what sanitizeSessionId returned for it

vars == << file, memoryLocks, nextResolved, current, pc, kind, sid, mem,
           fnOutcome, result, now, ran, loaded, before, admitted, entered,
           completed, defaultWrites, lastStored, overlapped,
           record, prior, fragment, merges, failed,
           extraction, followup, layerCounts, turn, input, output >>

\* The state of the store without the clock, and the state used by the
\* applications of the pure functions.
storeVars == << file, memoryLocks, nextResolved, current, pc, kind, sid, mem,
                fnOutcome, result, ran, loaded, before, admitted, entered,
                completed, defaultWrites, lastStored, overlapped >>
mergeVars == << record, prior, fragment, merges, failed >>
sanitizeVars == << input, output >>
analyzeVars == << extraction, followup, layerCounts >>
frameVars == << turn >>

KeyOf(c) == sanitizeSessionId(sid[c])

NoResult == [ status |-> "none", data |-> NoMemory ]
Failure  == [ status |-> "fail", data |-> NoMemory ]
Success(memory) == [ status |-> "ok", data |-> memory ]

Init ==
  /\ file          = [ k \in Keys |-> Absent ]
  /\ memoryLocks   = [ k \in Keys |-> NoEntry ]
  /\ nextResolved  = [ c \in Calls |-> FALSE ]
  /\ current       = [ c \in Calls |-> NoEntry ]
  /\ pc            = [ c \in Calls |-> "idle" ]
  /\ kind          = [ c \in Calls |-> "none" ]
  /\ sid           = [ c \in Calls |-> << >> ]
  /\ mem           = [ c \in Calls |-> NoMemory ]
  /\ fnOutcome     = [ c \in Calls |-> "none" ]
  /\ result        = [ c \in Calls |-> NoResult ]
  /\ now           = 0
  /\ ran           = [ c \in Calls |-> 0 ]
  /\ loaded        = [ c \in Calls |-> NoMemory ]
  /\ before        = [ c \in Calls |-> Absent ]
  /\ admitted      = [ k \in Keys |-> << >> ]
  /\ entered       = [ k \in Keys |-> << >> ]
  /\ completed     = [ k \in Keys |-> << >> ]
  /\ defaultWrites = [ k \in Keys |-> 0 ]
  /\ lastStored    = [ k \in Keys |-> Absent ]
  /\ overlapped    = [ k \in Keys |-> FALSE ]
  /\ record        = createEmptyMemory(<< "a" >>, 0)
  /\ prior         = createEmptyMemory(<< "a" >>, 0)
  /\ fragment      = NoUpdate
  /\ merges        = 0
  /\ failed        = FALSE
  /\ extraction    = [ c \in Calls |-> None ]
  /\ followup      = [ c \in Calls |-> None ]
  /\ layerCounts   = [ c \in Calls |-> None ]
  /\ turn          = None
  /\ input         = << >>
  /\ output        = sanitizeSessionId(<< >>)

\* Calls are started in the order of their numbers (the numbering is arbitrary).
CanStart(c) == pc[c] = "idle" /\ \A d \in Calls : d < c => pc[d] # "idle"

\* A call for the key has begun and has not returned to its caller.
Running(safeId) ==
  \E d \in Calls : /\ pc[d] \notin { "idle", "done" }
                    /\ sanitizeSessionId(sid[d]) = safeId

\* The identifiers a call may carry.  A raw identifier acts through its key
\* only and the keys are interchangeable, so the first call's is fixed.
SessionIdsOf(c) == IF c = 1 THEN { << "a" >> } ELSE SessionIds

\* new Date(): the clock never runs backwards; a reading is the last reading
\* or a later instant.
Date == { t \in { now, now + 1 } : t <= MaxClock }

\* The calls of a set, in the order of their numbers.
RECURSIVE SetToSeq(_)
SetToSeq(S) ==
  IF S = { } THEN << >>
  ELSE LET m == CHOOSE x \in S : \A y \in S : x <= y
       IN  << m >> \o SetToSeq(S \ { m })

\* ------------------------------------------------------------ withMemoryLock
\* Promise p is fulfilled, given which next promises have been released:
\* current.then(() => next) is fulfilled once current is and next is.
RECURSIVE PromiseResolved(_, _)
PromiseResolved(p, released) ==
  \/ p = ResolvedPromise
  \/ \E c \in Calls : /\ p = ChainPromise(c)
                      /\ released[c]
                      /\ PromiseResolved(current[c], released)
  \/ \E c \in Calls : p = NextPromise(c) /\ released[c]

\* A variant that never chains on the stored promise.
LockTailIgnoresEntry(safeId) == ResolvedPromise

\* A variant with one lock for all keys: chains on the latest stored promise.
LockTailAnyKey(safeId) ==
  LET held == { c \in Calls : \E k \in Keys : memoryLocks[k] = ChainPromise(c) }
  IN  IF held = { } THEN ResolvedPromise
      ELSE ChainPromise(CHOOSE c \in held : \A d \in held : d <= c)

\* const current = memoryLocks.get(safeId) ?? Promise.resolve()
LockTail(safeId) ==
  IF memoryLocks[safeId] = NoEntry THEN ResolvedPromise ELSE memoryLocks[safeId]

\* A variant that starts fn without awaiting current.
AdmitNoWait(p, released) == TRUE

\* await current: the call goes on to fn() once current is fulfilled.
Admit(p, released) == PromiseResolved(p, released)

\* A variant that releases after fn's success only (no finally block).
ReleasedOnSuccess(outcome) == outcome = "ok"

\* finally { release(); ... }: next is resolved however fn settled.
Released(outcome) == TRUE

\* A variant that swallows fn's failure and returns the record in memory.
ReturnedSwallow(outcome, memory) == Success(memory)

\* return await fn(): the caller gets fn's value or fn's exception.
Returned(outcome, memory) ==
  IF outcome = "ok" THEN Success(memory) ELSE Failure

\* A call moves to its next suspension: nothing settles.
Goto(c, p, memory, t) ==
  /\ pc' = [ pc EXCEPT ![c] = p ]
  /\ mem' = [ mem EXCEPT ![c] = memory ]
  /\ now' = t
  /\ UNCHANGED << loaded, fnOutcome, result, nextResolved, memoryLocks, ran,
                  before, entered, completed >>

\* fn of call c settles.  getMemory: the caller gets the record or the error.
\* updateMemory: withMemoryLock's finally block runs (release, conditional
\* delete), the caller gets fn's outcome, and the call awaiting the promise
\* that this fulfils starts its fn: readMemoryFile is called.
Settle(c, outcome, memory) ==
  /\ mem' = [ mem EXCEPT ![c] = NoMemory ]
  /\ loaded' = [ loaded EXCEPT ![c] = NoMemory ]
  /\ fnOutcome' = [ fnOutcome EXCEPT ![c] = outcome ]
  /\ UNCHANGED now
  /\ IF kind[c] = "get"
     THEN /\ pc' = [ pc EXCEPT ![c] = "done" ]
          /\ result' = [ result EXCEPT ![c] =
                           IF outcome = "ok" THEN Success(memory) ELSE Failure ]
          /\ UNCHANGED << nextResolved, memoryLocks, ran, before, entered,
                          completed >>
     ELSE LET released == [ nextResolved EXCEPT ![c] = Released(outcome) ]
              resumed  == { d \in Calls : pc[d] = "await"
                                          /\ Admit(current[d], released) }
          IN  /\ nextResolved' = released
              /\ memoryLocks' = IF memoryLocks[KeyOf(c)] = NextPromise(c)
                                THEN [ memoryLocks EXCEPT ![KeyOf(c)] = NoEntry ]
                                ELSE memoryLocks
              /\ result' = [ result EXCEPT ![c] = Returned(outcome, memory) ]
              /\ pc' = [ d \in Calls |->
                           IF d = c THEN "done"
                           ELSE IF d \in resumed THEN "read" ELSE pc[d] ]
              /\ ran' = [ d \in Calls |->
                            IF d \in resumed THEN ran[d] + 1 ELSE ran[d] ]
              /\ before' = [ d \in Calls |->
                               IF d \in resumed THEN file'[KeyOf(d)]
                               ELSE IF d = c /\ outcome = "ok" THEN Absent
                               ELSE before[d] ]
              /\ entered' = [ k \in Keys |->
                                entered[k] \o
                                  SetToSeq({ d \in resumed : KeyOf(d) = k }) ]
              /\ completed' = [ completed EXCEPT ![KeyOf(c)] = Append(@, c) ]

\* export async function getMemory(sessionId): readMemoryFile, without a lock.
getMemory(c, s) ==
  /\ CanStart(c)
  /\ kind' = [ kind EXCEPT ![c] = "get" ]
  /\ sid'  = [ sid EXCEPT ![c] = s ]
  /\ pc'   = [ pc EXCEPT ![c] = "read" ]
  /\ ran'  = [ ran EXCEPT ![c] = @ + 1 ]
  /\ overlapped' = [ overlapped EXCEPT ![sanitizeSessionId(s)] =
                       @ \/ Running(sanitizeSessionId(s)) ]
  /\ UNCHANGED << file, memoryLocks, nextResolved, current, mem, fnOutcome,
                  result, now, loaded, before, admitted, entered, completed,
                  defaultWrites, lastStored >>
  /\ UNCHANGED << mergeVars, sanitizeVars, analyzeVars, frameVars >>

\* withMemoryLock: reads the tail of the key's chain, creates next, stores
\* current.then(() => next) in the map and awaits current; when current is
\* fulfilled already, fn starts and readMemoryFile is called.
withMemoryLock(c, s) ==
  LET safeId == sanitizeSessionId(s)
      cur    == LockTail(safeId)
      goes   == Admit(cur, nextResolved)
  IN
  /\ kind' = [ kind EXCEPT ![c] = "update" ]
  /\ sid'  = [ sid EXCEPT ![c] = s ]
  /\ current' = [ current EXCEPT ![c] = cur ]
  /\ memoryLocks' = [ memoryLocks EXCEPT ![safeId] = ChainPromise(c) ]
  /\ admitted' = [ admitted EXCEPT ![safeId] = Append(@, c) ]
  /\ pc' = [ pc EXCEPT ![c] = IF goes THEN "read" ELSE "await" ]
  /\ ran' = [ ran EXCEPT ![c] = IF goes THEN @ + 1 ELSE @ ]
  /\ entered' = IF goes THEN [ entered EXCEPT ![safeId] = Append(@, c) ]
                ELSE entered
  /\ before' = IF goes THEN [ before EXCEPT ![c] = file[safeId] ] ELSE before
  /\ overlapped' = [ overlapped EXCEPT ![safeId] = @ \/ Running(safeId) ]
  /\ UNCHANGED << file, nextResolved, mem, fnOutcome, result, now, loaded,
                  completed, defaultWrites, lastStored >>
  /\ UNCHANGED << mergeVars, sanitizeVars, frameVars >>

\* export async function updateMemory(sessionId, updater), called by the
\* handler of POST /api/memory.
updateMemory(c, s) ==
  /\ CanStart(c)
  /\ withMemoryLock(c, s)
  /\ UNCHANGED analyzeVars

\* -------------------------------------------------------------- updateMemory
\* The updater of analyze-answer: the turn, the merge of the extraction and
\* the follow-up signal, on the record that was loaded.
analyzeUpdater(c, memory, t) ==
  [ applyMemoryUpdate(appendTranscriptEntry(memory, TurnOf(c, t)),
                      extraction[c][1], t)
      EXCEPT !.lastFollowup = followup[c] ]

\* readMemoryFile returned memory.  getMemory returns it.  updateMemory runs
\* the updater, sets updatedAt and calls writeMemoryFile.  The updater of
\* POST /api/memory appends the call's turn (an updater may throw); the
\* updater of analyze-answer throws where applyMemoryUpdate does.
Continue(c, memory) ==
  IF kind[c] = "get"
  THEN Settle(c, "ok", memory)
  ELSE IF extraction[c] # None
  THEN IF applyMemoryUpdateThrows(extraction[c][1])
       THEN Settle(c, "threw", memory)
       ELSE \E t \in Date :
              /\ pc' = [ pc EXCEPT ![c] = "writeOpen" ]
              /\ mem' = [ mem EXCEPT ![c] =
                            [ analyzeUpdater(c, memory, t) EXCEPT !.updatedAt = t ] ]
              /\ loaded' = [ loaded EXCEPT ![c] = memory ]
              /\ now' = t
              /\ UNCHANGED << fnOutcome, result, nextResolved, memoryLocks, ran,
                              before, entered, completed >>
  ELSE \/ \E t \in Date :
            /\ pc' = [ pc EXCEPT ![c] = "writeOpen" ]
            /\ mem' = [ mem EXCEPT ![c] =
                          [ appendTranscriptEntry(memory, TurnOf(c, t))
                              EXCEPT !.updatedAt = t ] ]
            /\ loaded' = [ loaded EXCEPT ![c] = memory ]
            /\ now' = t
            /\ UNCHANGED << fnOutcome, result, nextResolved, memoryLocks, ran,
                            before, entered, completed >>
       \/ Settle(c, "fail", memory)

\* ------------------------------------------------------------ readMemoryFile
\* A variant that takes every failed load for a missing file.
IsENOENTOrCorrupt(f) == f.status \in { "absent", "torn" }

\* (error as NodeJS.ErrnoException).code === "ENOENT": the file does not exist.
\* The SyntaxError of JSON.parse has no code.
IsENOENT(f) == f.status = "absent"

\* fs.readFile + JSON.parse settle: the record, ENOENT (then the default record
\* is built and fs.writeFile is called), or another error that is rethrown.
readMemoryFile(c) ==
  /\ pc[c] = "read"
  /\ UNCHANGED << file, defaultWrites, lastStored >>
  /\ \/ /\ file[KeyOf(c)].status = "ok"
        /\ Continue(c, file[KeyOf(c)].data)
     \/ /\ file[KeyOf(c)].status # "ok"
        /\ IsENOENT(file[KeyOf(c)])
        /\ \E t \in Date :
             Goto(c, "createOpen", createEmptyMemory(KeyOf(c), t), t)
     \/ /\ file[KeyOf(c)].status # "ok"        \* JSON.parse throws SyntaxError
        /\ ~ IsENOENT(file[KeyOf(c)])
        /\ Settle(c, "fail", mem[c])
     \/ Settle(c, "fail", mem[c])               \* mkdir / readFile I/O error
  /\ UNCHANGED << current, kind, sid, admitted, overlapped >>
  /\ UNCHANGED << mergeVars, sanitizeVars, analyzeVars, frameVars >>

\* fs.writeFile(filePath, ...) of the default record opens the file (flag "w":
\* created or truncated) or fails to.
writeDefaultOpen(c) ==
  /\ pc[c] = "createOpen"
  /\ UNCHANGED << defaultWrites, lastStored >>
  /\ \/ /\ file' = [ file EXCEPT ![KeyOf(c)] = Torn ]
        /\ Goto(c, "createFinish", mem[c], now)
     \/ /\ UNCHANGED file
        /\ Settle(c, "fail", mem[c])
  /\ UNCHANGED << current, kind, sid, admitted, overlapped >>
  /\ UNCHANGED << mergeVars, sanitizeVars, analyzeVars, frameVars >>

\* ... and writes the default record completely (readMemoryFile returns it),
\* or fails part-way.
writeDefaultFinish(c) ==
  /\ pc[c] = "createFinish"
  /\ \/ /\ file' = [ file EXCEPT ![KeyOf(c)] = Stored(mem[c]) ]
        /\ defaultWrites' = [ defaultWrites EXCEPT ![KeyOf(c)] = @ + 1 ]
        /\ lastStored' = [ lastStored EXCEPT ![KeyOf(c)] = Stored(mem[c]) ]
        /\ Continue(c, mem[c])
     \/ /\ file' = [ file EXCEPT ![KeyOf(c)] = Torn ]
        /\ UNCHANGED << defaultWrites, lastStored >>
        /\ Settle(c, "fail", mem[c])
  /\ UNCHANGED << current, kind, sid, admitted, overlapped >>
  /\ UNCHANGED << mergeVars, sanitizeVars, analyzeVars, frameVars >>

\* ----------------------------------------------------------- writeMemoryFile
\* fs.writeFile opens the file (truncating it) or fails to.
writeMemoryFileOpen(c) ==
  /\ pc[c] = "writeOpen"
  /\ UNCHANGED << defaultWrites, lastStored >>
  /\ \/ /\ file' = [ file EXCEPT ![KeyOf(c)] = Torn ]
        /\ Goto(c, "writeFinish", mem[c], now)
     \/ /\ UNCHANGED file
        /\ Settle(c, "fail", mem[c])
  /\ UNCHANGED << current, kind, sid, admitted, overlapped >>
  /\ UNCHANGED << mergeVars, sanitizeVars, analyzeVars, frameVars >>

\* The record is written completely (fn returns updated), or the write fails
\* part-way.
writeMemoryFileFinish(c) ==
  /\ pc[c] = "writeFinish"
  /\ UNCHANGED defaultWrites
  /\ \/ /\ file' = [ file EXCEPT ![KeyOf(c)] = Stored(mem[c]) ]
        /\ lastStored' = [ lastStored EXCEPT ![KeyOf(c)] = Stored(mem[c]) ]
        /\ Settle(c, "ok", mem[c])
     \/ /\ file' = [ file EXCEPT ![KeyOf(c)] = Torn ]
        /\ UNCHANGED lastStored
        /\ Settle(c, "fail", mem[c])
  /\ UNCHANGED << current, kind, sid, admitted, overlapped >>
  /\ UNCHANGED << mergeVars, sanitizeVars, analyzeVars, frameVars >>

Next ==
  \/ \E c \in Calls : \E s \in SessionIdsOf(c) : getMemory(c, s)
  \/ \E c \in Calls : \E s \in SessionIdsOf(c) : updateMemory(c, s)
  \/ \E c \in Calls : readMemoryFile(c)
  \/ \E c \in Calls : writeDefaultOpen(c)
  \/ \E c \in Calls : writeDefaultFinish(c)
  \/ \E c \in Calls : writeMemoryFileOpen(c)
  \/ \E c \in Calls : writeMemoryFileFinish(c)

Spec == Init /\ [][Next]_vars

\* The executions in which every call is an updateMemory call.
NextUpdate ==
  \/ \E c \in Calls : \E s \in SessionIdsOf(c) : updateMemory(c, s)
  \/ \E c \in Calls : readMemoryFile(c)
  \/ \E c \in Calls : writeDefaultOpen(c)
  \/ \E c \in Calls : writeDefaultFinish(c)
  \/ \E c \in Calls : writeMemoryFileOpen(c)
  \/ \E c \in Calls : writeMemoryFileFinish(c)

SpecUpdate == Init /\ [][NextUpdate]_vars

\* ------------------------------------------------------------- scheduling
\* The event-loop tasks of call c: the completions of its file operations.
IO(c) ==
  \/ readMemoryFile(c)
  \/ writeDefaultOpen(c)
  \/ writeDefaultFinish(c)
  \/ writeMemoryFileOpen(c)
  \/ writeMemoryFileFinish(c)

\* The executions of updateMemory calls in which every operation run under a
\* lock terminates: a file operation that was started completes, with a result
\* or with an error, and the updater returns or throws (it runs inside the
\* task that completes the load).
SpecFair ==
  Init /\ [][NextUpdate]_vars /\ \A c \in Calls : WF_vars(IO(c))

\* The operation the call is suspended on never settles: a file operation on a
\* dead mount, an updater whose promise is never resolved.
hang(c) ==
  /\ kind[c] = "update"
  /\ pc[c] \in { "read", "createOpen", "createFinish", "writeOpen", "writeFinish" }
  /\ pc' = [ pc EXCEPT ![c] = "hung" ]
  /\ UNCHANGED << file, memoryLocks, nextResolved, current, kind, sid, mem,
                  fnOutcome, result, now, ran, loaded, before, admitted, entered,
                  completed, defaultWrites, lastStored, overlapped >>
  /\ UNCHANGED << mergeVars, sanitizeVars, analyzeVars, frameVars >>

NextHang ==
  \/ NextUpdate
  \/ \E c \in Calls : hang(c)

\* Every operation that does not hang completes; timers, if the code set any,
\* would be tasks of the waiting call.
SpecHang ==
  Init /\ [][NextHang]_vars /\ \A c \in Calls : WF_vars(IO(c))

\* ------------------------------------------------- POST /api/analyze-answer
\* let extraction = { psychoTree: { leaves: [], ... }, hasPsychoTreeAnswer: false }
DefaultExtraction ==
  [ NoUpdate EXCEPT !.psychoTree =
      Some([ l \in { layers[i] : i \in DOMAIN layers } |-> Some(<< >>) ]) ]

\* What the extraction step leaves in `extraction`: the default (no API key,
\* or the step failed), or the JSON of the language model, cast unchecked.
Extractions ==
  { DefaultExtraction,
    [ NoUpdate EXCEPT !.psychoTree =
        Some([ NoTree EXCEPT !["leaves"] = Some(<< Entry(Some(QUE), Some(ANS)) >>) ]) ] }
  \cup MalformedUpdates

\* let followup = { action: "continue_story", targetLayer: "none", ... }
DefaultFollowup == [ action |-> "continue_story", targetLayer |-> "none" ]

\* What the follow-up step leaves in `followup`: the default, or the JSON of
\* the language model, cast unchecked.
Followups ==
  { DefaultFollowup, [ action |-> "double_down", targetLayer |-> "roots" ] }

\* countLayer(memorySnapshot, layer) for the four layers.
countLayers(memory) ==
  [ l \in { layers[i] : i \in DOMAIN layers } |-> Len(memory.psychoTree[l]) ]

\* The request passed validation: const memorySnapshot = await getMemory(sessionId)
POST(c, s) == getMemory(c, s)

\* getMemory returned the snapshot; the extraction and follow-up steps ran (or
\* were skipped), the latter with the layer counts of the snapshot; the
\* handler calls updateMemory with its updater.
analyzeAnswer(c) ==
  /\ kind[c] = "get"
  /\ pc[c] = "done"
  /\ result[c].status = "ok"
  /\ \E e \in Extractions : \E f \in Followups :
       /\ extraction' = [ extraction EXCEPT ![c] = Some(e) ]
       /\ followup' = [ followup EXCEPT ![c] = Some(f) ]
  /\ layerCounts' = [ layerCounts EXCEPT ![c] = Some(countLayers(result[c].data)) ]
  /\ withMemoryLock(c, sid[c])

NextAnalyze ==
  \/ \E c \in Calls : \E s \in SessionIdsOf(c) : POST(c, s)
  \/ \E c \in Calls : analyzeAnswer(c)
  \/ \E c \in Calls : readMemoryFile(c)
  \/ \E c \in Calls : writeDefaultOpen(c)
  \/ \E c \in Calls : writeDefaultFinish(c)
  \/ \E c \in Calls : writeMemoryFileOpen(c)
  \/ \E c \in Calls : writeMemoryFileFinish(c)

\* The executions in which every call is an analyze-answer request.
SpecAnalyze == Init /\ [][NextAnalyze]_vars

\* ------------------------------------------- calls of applyMemoryUpdate
\* A caller merges an update into the record (analyze-answer's updater).
applyUpdate ==
  \E u \in Updates \cup MalformedUpdates : \E t \in Date :
    /\ merges < MaxMerges
    /\ ~ failed
    /\ IF applyMemoryUpdateThrows(u)
       THEN /\ failed' = TRUE
            /\ t = now
            /\ UNCHANGED << record, prior, fragment, merges, now >>
       ELSE /\ prior' = record
            /\ fragment' = u
            /\ record' = applyMemoryUpdate(record, u, t)
            /\ merges' = merges + 1
            /\ now' = t
            /\ UNCHANGED failed
    /\ UNCHANGED << storeVars, sanitizeVars, analyzeVars, frameVars >>

NextMerge == applyUpdate

SpecMerge == Init /\ [][NextMerge]_vars

\* ------------------------------------ the two mutators, one after the other
\* The entries a caller appends: the role, the content and the time stamp are
\* the caller's (POST /api/memory passes the client's or new Date()).
\* The content of the n-th entry is n.
TranscriptEntries(n) ==
  [ role : { "user", "assistant" }, content : { n }, timestamp : 0..MaxClock ]

\* Updates of each part of a record: the identity, the two social lists and
\* two layers of the tree.
FrameUpdates ==
  { NoUpdate,
    [ NoUpdate EXCEPT !.user = Some([ name |-> "Ann", email |-> UNDEFINED ]) ],
    [ NoUpdate EXCEPT !.social =
        Some([ instagram |-> Some([ handle |-> UNDEFINED, url |-> UNDEFINED,
                                    posts |-> Some(<< Item(Some(Hi)) >>) ]),
               linkedin  |-> None ]) ],
    [ NoUpdate EXCEPT !.social =
        Some([ instagram |-> None,
               linkedin  |-> Some([ profileUrl |-> UNDEFINED,
                                    activities |-> Some(<< Item(Some(yo)) >>) ]) ]) ],
    [ NoUpdate EXCEPT !.psychoTree =
        Some([ NoTree EXCEPT !["leaves"] = Some(<< Entry(Some(QUE), Some(ANS)) >>) ]) ],
    [ NoUpdate EXCEPT !.psychoTree =
        Some([ NoTree EXCEPT !["roots"] = Some(<< Entry(None, Some(ans)) >>) ]) ] }

\* A caller appends an entry to the record.
appendEntry ==
  \E e \in TranscriptEntries(Len(record.transcript) + 1) :
    /\ Len(record.transcript) < MaxMerges
    /\ prior' = record
    /\ record' = appendTranscriptEntry(record, e)
    /\ turn' = Some(e)
    /\ fragment' = NoUpdate
    /\ UNCHANGED << merges, failed, now >>
    /\ UNCHANGED << storeVars, sanitizeVars, analyzeVars >>

\* A caller merges an update into the record.
mergeUpdate ==
  \E u \in FrameUpdates : \E t \in Date :
    /\ merges < MaxMerges
    /\ prior' = record
    /\ fragment' = u
    /\ record' = applyMemoryUpdate(record, u, t)
    /\ merges' = merges + 1
    /\ turn' = None
    /\ now' = t
    /\ UNCHANGED failed
    /\ UNCHANGED << storeVars, sanitizeVars, analyzeVars >>

NextFrame == appendEntry \/ mergeUpdate

SpecFrame == Init /\ [][NextFrame]_vars

\* ------------------------------------------- calls of sanitizeSessionId
\* A run sanitizes one raw identifier (readMemoryFile, writeMemoryFile and
\* withMemoryLock each call sanitizeSessionId on the caller's string) ...
sanitize ==
  \E s \in Inputs :
    /\ input = << >>
    /\ input' = s
    /\ output' = sanitizeSessionId(s)
    /\ UNCHANGED << storeVars, now, mergeVars, analyzeVars, frameVars >>

\* ... and then the key it got (the key is what createEmptyMemory stores as
\* user.id, and a client may send it back as its session identifier).
sanitizeKey ==
  /\ input # output
  /\ input' = output
  /\ output' = sanitizeSessionId(output)
  /\ UNCHANGED << storeVars, now, mergeVars, analyzeVars, frameVars >>

NextSanitize == sanitize \/ sanitizeKey

SpecSanitize == Init /\ [][NextSanitize]_vars

\* ------------------------------------------------------------------- typing
TypeOK ==
  /\ \A k \in Keys : file[k].status \in { "absent", "torn", "ok" }
  /\ \A c \in Calls : pc[c] \in { "idle", "await", "read", "createOpen",
                                  "createFinish", "writeOpen", "writeFinish",
                                  "done", "hung" }
  /\ now \in 0..MaxClock

\* ================================================================ properties
IsPrefix(s, t) == Len(s) <= Len(t) /\ SubSeq(t, 1, Len(s)) = s

\* The call is inside fn: between the start of readMemoryFile and the
\* settlement of fn.
InFn(c) ==
  pc[c] \in { "read", "createOpen", "createFinish", "writeOpen", "writeFinish" }

Critical(c) == kind[c] = "update" /\ InFn(c)

UpdatesOn(k) == { c \in Calls : kind[c] = "update" /\ KeyOf(c) = k }

\* The calls admitted to the key's lock before call c.
AdmittedBefore(c) ==
  IF kind[c] # "update" THEN { }
  ELSE LET q == admitted[KeyOf(c)]
       IN  { q[j] : j \in { i \in 1..Len(q) : \E n \in 1..Len(q) : q[n] = c /\ i < n } }


\* C1 - mutual exclusion: in every reachable state at most one updateMemory
\* critical section (readMemoryFile -> updater -> writeMemoryFile under
\* withMemoryLock) is in progress per sanitized session key.
C1_MutualExclusion ==
  \A c, d \in Calls :
    (c # d /\ Critical(c) /\ Critical(d)) => KeyOf(c) # KeyOf(d)

\* A holder suspended on the write while another call for the key waits.
C1_Witness ==
  \E c, d \in Calls :
    /\ c # d
    /\ kind[c] = "update" /\ pc[c] = "writeFinish"
    /\ kind[d] = "update" /\ pc[d] = "await"
    /\ KeyOf(c) = KeyOf(d)

\* C2 - no lost update: when the calls are updateMemory calls, the record
\* passed to a call's updater is the record that the call admitted just before
\* it persisted and returned; the later call returns that record with its own
\* turn appended, and it is the content of the file until the next call runs.
C2_NoLostUpdate ==
  \A k \in Keys : \A i \in 2..Len(entered[k]) :
    LET c == entered[k][i]
        d == entered[k][i - 1]
    IN  result[d].status = "ok" =>
          /\ pc[c] \in { "writeOpen", "writeFinish" } => loaded[c] = result[d].data
          /\ result[c].status = "ok" =>
               /\ Len(result[c].data.transcript) >= 2
               /\ SubSeq(result[c].data.transcript, 1,
                         Len(result[c].data.transcript) - 1)
                    = result[d].data.transcript
               /\ result[c].data.transcript[Len(result[c].data.transcript)].content = c
               /\ result[d].data.transcript[Len(result[d].data.transcript)].content = d
               /\ i = Len(entered[k]) => file[k] = Stored(result[c].data)

\* Two calls of one key have both committed.
C2_Witness ==
  \E k \in Keys :
    /\ Len(entered[k]) = 2
    /\ result[entered[k][1]].status = "ok"
    /\ result[entered[k][2]].status = "ok"
    /\ file[k].status = "ok"
    /\ Len(file[k].data.transcript) = 2

\* C3 - no lock-entry leak: when every withMemoryLock call for a key has
\* finished, memoryLocks holds no entry for the key.
C3_NoLockEntryLeak ==
  \A k \in Keys :
    (\A c \in UpdatesOn(k) : pc[c] = "done") => memoryLocks[k] = NoEntry

\* C4 - release on failure: a call whose fn settled, with a failure too, has
\* released the lock, and a call waiting for the key always has a call that
\* was admitted before it inside fn: the queue of the key is never stuck
\* behind a call that has finished.
C4_ReleaseOnFailure ==
  \A c \in Calls :
    /\ (kind[c] = "update" /\ pc[c] = "done") => nextResolved[c]
    /\ pc[c] = "await" => \E d \in AdmittedBefore(c) : InFn(d)

\* A call has run and finished behind a call of the same key that failed.
C4_Witness ==
  \E c, d \in Calls :
    /\ d \in AdmittedBefore(c)
    /\ result[d].status = "fail" /\ pc[d] = "done"
    /\ ran[c] = 1 /\ pc[c] = "done"

\* C5 - lock independence: a call waits only for calls of its own key (a call
\* for a key with no unfinished call starts fn at once, whatever the calls of
\* other keys do), and a step changes the lock entry or the file of a key only
\* if it is a step of a call for that key.
C5_NoCrossWait ==
  \A c \in Calls :
    pc[c] = "await" => \E d \in AdmittedBefore(c) : pc[d] # "done"

C5_Step ==
  /\ \A c \in Calls :
       (pc[c] = "idle" /\ pc'[c] = "await")
         => \E d \in Calls : /\ kind[d] = "update"
                             /\ KeyOf(d) = sanitizeSessionId(sid'[c])
                             /\ pc[d] \notin { "idle", "done" }
  /\ \A k \in Keys :
       (memoryLocks'[k] # memoryLocks[k] \/ file'[k] # file[k])
         => \E c \in Calls : pc'[c] # pc[c] /\ sanitizeSessionId(sid'[c]) = k

C5_LockIndependence == []C5_NoCrossWait /\ [][C5_Step]_vars

\* A call has completed while an earlier call of another key is inside fn.
C5_Witness ==
  \E c, d \in Calls :
    /\ d < c
    /\ kind[c] = "update" /\ kind[d] = "update"
    /\ KeyOf(c) # KeyOf(d)
    /\ Critical(d)
    /\ pc[c] = "done" /\ result[c].status = "ok"

C7_Once ==
  \A c \in Calls : kind[c] = "update" =>
    /\ ran[c] <= 1
    /\ ran[c] = 1 => \A d \in AdmittedBefore(c) : pc[d] = "done"
    /\ pc[c] = "done" => ran[c] = 1 /\ result[c].status = fnOutcome[c]

C7_Return ==
  \A c \in Calls :
    (kind[c] = "update" /\ pc[c] # "done" /\ pc'[c] = "done") =>
      /\ fnOutcome'[c] = "ok" => result'[c] = Success(mem[c])
      /\ fnOutcome'[c] = "fail" => result'[c] = Failure
      /\ fnOutcome'[c] # "none"

C7_ExactlyOnce == []C7_Once /\ [][C7_Return]_vars

\* Two calls of one key are done, one with a result and one with a failure.
C7_Witness ==
  \E c, d \in Calls :
    /\ kind[c] = "update" /\ kind[d] = "update" /\ KeyOf(c) = KeyOf(d)
    /\ pc[c] = "done" /\ result[c].status = "ok"
    /\ pc[d] = "done" /\ result[d].status = "fail"

\* C8 - a failed updateMemory call leaves the file of its key as it was when
\* the call's fn started: in the step in which fn fails, the file equals the
\* file the call found.
C8_FailedUpdateKeepsRecord ==
  [][ \A c \in Calls :
        (kind[c] = "update" /\ fnOutcome[c] = "none" /\ fnOutcome'[c] = "fail")
          => file'[KeyOf(c)] = before[c]
    ]_vars

\* C9 - atomic lazy creation: the default record of a key is written at most
\* once and all callers that got a record for the key got the same createdAt.
C9_AtomicLazyCreation ==
  /\ \A k \in Keys : defaultWrites[k] <= 1
  /\ \A c, d \in Calls :
       ( /\ pc[c] = "done" /\ pc[d] = "done"
         /\ result[c].status = "ok" /\ result[d].status = "ok"
         /\ KeyOf(c) = KeyOf(d) )
         => result[c].data.createdAt = result[d].data.createdAt

\* C10 - the stored transcript is append-only: whenever a record is written
\* completely, the transcript of the record written before it is a prefix of
\* the new one.
C10_TranscriptAppendOnly ==
  [][ \A k \in Keys :
        IsPrefix(lastStored[k].data.transcript, lastStored'[k].data.transcript)
    ]_vars

\* C11 - sequential updates: when the updateMemory calls for a key ran one
\* after the other (none began while another call for the key was running)
\* and all N >= 1 of them succeeded, the file of the key holds a transcript of
\* length N whose i-th turn is the turn the i-th call appended.
C11_SequentialAppends ==
  \A k \in Keys :
    LET q == admitted[k]
    IN  ( /\ ~ overlapped[k]
          /\ Len(q) >= 1
          /\ \A i \in 1..Len(q) :
               pc[q[i]] = "done" /\ result[q[i]].status = "ok" )
        => /\ file[k].status = "ok"
           /\ Len(file[k].data.transcript) = Len(q)
           /\ \A i \in 1..Len(q) :
                /\ file[k].data.transcript[i].role = "user"
                /\ file[k].data.transcript[i].content = q[i]
                /\ Len(result[q[i]].data.transcript) = i
                /\ file[k].data.transcript[i] = result[q[i]].data.transcript[i]

\* All the calls of a run were sequential updates of one key and succeeded.
C11_Witness ==
  \E k \in Keys :
    /\ ~ overlapped[k]
    /\ Len(admitted[k]) = MaxCalls
    /\ \A i \in 1..MaxCalls :
         pc[admitted[k][i]] = "done" /\ result[admitted[k][i]].status = "ok"
    /\ Len(file[k].data.transcript) = MaxCalls

\* C12 - merge idempotence: applying the update that was just merged a second
\* time, at any later reading of the clock, leaves the record as the first
\* merge made it: identity, handles and urls, posts, activities and every
\* psycho-tree layer are the same.
C12_MergeIdempotent ==
  merges >= 1 =>
    \A t \in now..MaxClock :
      LET again == applyMemoryUpdate(record, fragment, t)
      IN  /\ again.user = record.user
          /\ again.social = record.social
          /\ \A i \in DOMAIN layers :
               again.psychoTree[layers[i]] = record.psychoTree[layers[i]]
          /\ again = record

\* An update with posts and one with entries were merged, one after the
\* other, and each added to the record.
C12_Witness ==
  /\ merges >= 2
  /\ fragment.social # None
  /\ Len(record.social.instagram.posts) > Len(prior.social.instagram.posts)
  /\ \E i \in DOMAIN layers : Len(prior.psychoTree[layers[i]]) >= 1

\* The texts of a stored list are pairwise different ignoring case.
UniqueTexts(items) ==
  \A i, j \in DOMAIN items :
    i # j => toLowerCase(items[i].text) # toLowerCase(items[j].text)

\* C13 - post/activity uniqueness: after any sequence of applyMemoryUpdate
\* calls on the empty record, no two posts and no two activities have texts
\* that are equal ignoring case; an update with the posts "Hi" and "hi" merged
\* into an empty list stores the first of them only.
C13_UniqueTexts ==
  /\ UniqueTexts(record.social.instagram.posts)
  /\ UniqueTexts(record.social.linkedin.activities)
  /\ ( /\ merges >= 1
       /\ fragment.social # None
       /\ fragment.social[1].instagram # None
       /\ fragment.social[1].instagram[1].posts
            = Some(<< Item(Some(Hi)), Item(Some(hi)) >>)
       /\ prior.social.instagram.posts = << >> )
      => /\ Len(record.social.instagram.posts) = 1
         /\ record.social.instagram.posts[1].text = Hi

\* "Hi" and "hi" arrived in one update for a list that held another post.
C13_Witness ==
  /\ merges >= 2
  /\ fragment.social # None
  /\ fragment.social[1].instagram # None
  /\ fragment.social[1].instagram[1].posts
       = Some(<< Item(Some(Hi)), Item(Some(hi)) >>)
  /\ Len(prior.social.instagram.posts) = 1
  /\ Len(record.social.instagram.posts) = 2

\* Two stored entries have the same (question, answer) pair ignoring case; a
\* null question is compared as the empty string, as the code does.
SamePair(e1, e2) ==
  /\ toLowerCase(e1.answer) = toLowerCase(e2.answer)
  /\ toLowerCase(IF e1.question = None THEN << >> ELSE e1.question[1])
       = toLowerCase(IF e2.question = None THEN << >> ELSE e2.question[1])

\* C14 - entry uniqueness: after any sequence of applyMemoryUpdate calls on
\* the empty record, no two entries of one psycho-tree layer have the same
\* (question, answer) pair ignoring case.
C14_UniqueEntries ==
  \A n \in DOMAIN layers :
    LET entries == record.psychoTree[layers[n]]
    IN  \A i, j \in DOMAIN entries :
          i # j => ~ SamePair(entries[i], entries[j])

\* An update with two entries for a layer added one of them to the entries
\* the layer held.
C14_Witness ==
  /\ merges >= 2
  /\ fragment.psychoTree # None
  /\ \E n \in DOMAIN layers :
       /\ fragment.psychoTree[1][layers[n]] # None
       /\ Len(fragment.psychoTree[1][layers[n]][1]) = 2
       /\ Len(prior.psychoTree[layers[n]]) >= 1
       /\ Len(record.psychoTree[layers[n]]) = Len(prior.psychoTree[layers[n]]) + 1

\* The update has incoming entries for the layer.
Incoming(update, layer) ==
  /\ update.psychoTree # None
  /\ update.psychoTree[1][layer] # None
  /\ update.psychoTree[1][layer][1] # << >>

\* The record and the update cut down to one layer.
OnlyLayer(memory, layer) ==
  [ createEmptyMemory(memory.user.id, memory.createdAt)
      EXCEPT !.psychoTree[layer] = memory.psychoTree[layer] ]
OnlyLayerOf(update, layer) ==
  IF update.psychoTree = None THEN NoUpdate
  ELSE [ NoUpdate EXCEPT
           !.psychoTree = Some([ NoTree EXCEPT ![layer] = update.psychoTree[1][layer] ]) ]

\* C15 - layer isolation: a layer for which the update has no entries is left
\* as it was, and the result for a layer is the result of merging that layer's
\* incoming entries into a record that holds that layer's entries only.
C15_LayerIsolation ==
  merges >= 1 =>
    \A n \in DOMAIN layers :
      LET layer == layers[n]
      IN  /\ ~ Incoming(fragment, layer)
               => record.psychoTree[layer] = prior.psychoTree[layer]
          /\ record.psychoTree[layer]
               = applyMemoryUpdate(OnlyLayer(prior, layer),
                                   OnlyLayerOf(fragment, layer), now).psychoTree[layer]

\* An update with entries for one layer only added to that layer of a record
\* that held entries in another layer.
C15_Witness ==
  /\ merges >= 2
  /\ \E n, o \in DOMAIN layers :
       /\ n # o
       /\ Incoming(fragment, layers[n])
       /\ \A p \in DOMAIN layers : p # n => ~ Incoming(fragment, layers[p])
       /\ Len(record.psychoTree[layers[n]]) > Len(prior.psychoTree[layers[n]])
       /\ Len(prior.psychoTree[layers[o]]) >= 1
       /\ record.psychoTree[layers[o]] = prior.psychoTree[layers[o]]

\* The name and the email an update carries.
NameOf(update)  == IF update.user = None THEN UNDEFINED ELSE update.user[1].name
EmailOf(update) == IF update.user = None THEN UNDEFINED ELSE update.user[1].email

\* C16 - identity fields are never erased: a name (an email) that is not null
\* stays not null; an update whose name (email) is absent, null or "" leaves
\* the stored value as it was, and any other value overwrites it.
C16_IdentityKept ==
  merges >= 1 =>
    /\ prior.user.name # NULL => record.user.name # NULL
    /\ prior.user.email # NULL => record.user.email # NULL
    /\ record.user.name = IF NameOf(fragment) \in { UNDEFINED, NULL, "" }
                          THEN prior.user.name ELSE NameOf(fragment)
    /\ record.user.email = IF EmailOf(fragment) \in { UNDEFINED, NULL, "" }
                           THEN prior.user.email ELSE EmailOf(fragment)
    /\ record.user.name # "" /\ record.user.email # ""

\* An update with the empty string as name was merged into a record with a
\* name.
C16_Witness ==
  /\ prior.user.name = "Ann"
  /\ fragment.user # None
  /\ NameOf(fragment) = ""
  /\ record.user.name = "Ann"

\* The character is an ASCII letter, a digit, '_' or '-'.
IsSafeChar(ch) ==
  \/ \E i \in DOMAIN UpperCase : ch = UpperCase[i] \/ ch = LowerCase[i]
  \/ ch \in { "0", "1", "2", "3", "4", "5", "6", "7", "8", "9", "_", "-" }

\* C17 - sanitizeSessionId: for every input the result is not empty; it is
\* the input's safe characters in their order, or "anonymous" when the input
\* has none; it holds no '.', '/' or backslash; and sanitizing the result
\* returns the result.
C17_Sanitize ==
  LET kept == SelectSeq(input, IsSafeChar)
  IN  /\ Len(output) > 0
      /\ output = IF kept = << >> THEN Anonymous ELSE kept
      /\ \A i \in DOMAIN output : output[i] \notin { ".", "/", "\\" }
      /\ \A i \in DOMAIN output : IsSafeChar(output[i])
      /\ sanitizeSessionId(output) = output
      /\ output = sanitizeSessionId(input)

\* An input with safe and unsafe characters was cut down to its safe ones.
C17_Witness ==
  /\ Len(input) = MaxLen
  /\ input[1] \in { ".", "/" }
  /\ Len(output) = MaxLen - 1

\* C18 - a load never changes a file; the load of a file that cannot be
\* decoded fails and the caller gets the error; the default record is built
\* only when the file does not exist.
C18_LoadStep ==
  \A c \in Calls :
    (pc[c] = "read" /\ pc'[c] # "read") =>
      /\ file' = file
      /\ file[KeyOf(c)].status = "torn"
           => pc'[c] = "done" /\ fnOutcome'[c] = "fail" /\ result'[c] = Failure
      /\ pc'[c] = "createOpen" => file[KeyOf(c)].status = "absent"
      /\ fnOutcome'[c] = "fail" => result'[c] = Failure

C18_CorruptLoadFails == [][C18_LoadStep]_vars

\* An updateMemory call that found its key's file torn has failed, and the
\* file is still the torn file.
C18_Witness ==
  \E c \in Calls :
    /\ kind[c] = "update"
    /\ pc[c] = "done" /\ result[c].status = "fail"
    /\ before[c].status = "torn"
    /\ file[KeyOf(c)].status = "torn"

\* C19 - getMemory on a key without a file returns and stores the empty
\* record: no entries, posts, activities or turns, name, email and
\* lastFollowup null, user.id the sanitized key, createdAt = updatedAt ...
C19_DefaultStep ==
  \A c \in Calls :
    ( /\ kind[c] = "get"
      /\ pc[c] = "createFinish" /\ pc'[c] = "done"
      /\ result'[c].status = "ok" )
    => LET r == result'[c].data
       IN  /\ \A i \in DOMAIN layers : r.psychoTree[layers[i]] = << >>
           /\ r.social.instagram.posts = << >>
           /\ r.social.linkedin.activities = << >>
           /\ r.transcript = << >>
           /\ r.user.name = NULL /\ r.user.email = NULL
           /\ r.lastFollowup = << >>
           /\ r.user.id = sanitizeSessionId(sid[c])
           /\ r.createdAt = r.updatedAt
           /\ file'[KeyOf(c)] = Stored(r)

\* ... and the next getMemory for the key, when no other call for the key ran
\* meanwhile, returns the same record, which is the record in the file until
\* a later updateMemory call writes.
C19_SameOnReread ==
  \A c, d \in Calls :
    ( /\ d = c + 1
      /\ kind[c] = "get" /\ kind[d] = "get"
      /\ KeyOf(c) = KeyOf(d)
      /\ ~ overlapped[KeyOf(c)]
      /\ pc[c] = "done" /\ result[c].status = "ok"
      /\ pc[d] = "done" /\ result[d].status = "ok" )
    => /\ result[d].data = result[c].data
       /\ (\A u \in UpdatesOn(KeyOf(c)) : u < c)
            => file[KeyOf(c)] = Stored(result[c].data)

C19_DefaultOnFirstGet == []C19_SameOnReread /\ [][C19_DefaultStep]_vars

\* Two getMemory calls for a fresh key, one after the other and with
\* different raw identifiers: the first wrote the default record, the second
\* returned it.
C19_Witness ==
  \E c, d \in Calls :
    /\ d = c + 1
    /\ kind[c] = "get" /\ kind[d] = "get"
    /\ KeyOf(c) = KeyOf(d)
    /\ ~ overlapped[KeyOf(c)]
    /\ pc[c] = "done" /\ result[c].status = "ok"
    /\ pc[d] = "done" /\ result[d].status = "ok"
    /\ defaultWrites[KeyOf(c)] = 1
    /\ sid[c] # sid[d]

\* The updateMemory calls for the key whose write completes in this step.
Commits(k) ==
  { c \in Calls : /\ kind[c] = "update" /\ KeyOf(c) = k
                  /\ pc[c] = "writeFinish" /\ pc'[c] = "done"
                  /\ fnOutcome'[c] = "ok" }

\* C20 - updatedAt: every stored record has updatedAt >= createdAt, and the
\* updatedAt of the record stored for a key changes on, and only on, a commit
\* of an updateMemory call for the key: a step without such a commit leaves
\* it as it was, and a commit sets it to the reading of the clock the call
\* took, which is not earlier than the stored one.  (Two readings of a
\* non-decreasing clock may be equal, so "changes" is not read as "differs".)
C20_Ordered ==
  \A k \in Keys :
    /\ file[k].status = "ok" => file[k].data.updatedAt >= file[k].data.createdAt
    /\ lastStored[k].data.updatedAt >= lastStored[k].data.createdAt

C20_Step ==
  \A k \in Keys :
    lastStored[k].status = "ok" =>
      /\ Commits(k) = { }
           => lastStored'[k].data.updatedAt = lastStored[k].data.updatedAt
      /\ \A c \in Commits(k) :
           /\ lastStored'[k].data.updatedAt = mem[c].updatedAt
           /\ lastStored'[k].data.updatedAt >= lastStored[k].data.updatedAt

C20_UpdatedAt == []C20_Ordered /\ [][C20_Step]_vars

\* The entries the update carries for the layer.
IncomingEntries(update, layer) ==
  IF Incoming(update, layer) THEN update.psychoTree[1][layer][1] ELSE << >>

\* Two (question, answer) pairs are the same ignoring case; a null question
\* and an empty question are different questions.
SamePairExact(q1, a1, q2, a2) ==
  /\ toLowerCase(a1) = toLowerCase(a2)
  /\ \/ q1 = None /\ q2 = None
     \/ q1 # None /\ q2 # None /\ toLowerCase(q1[1]) = toLowerCase(q2[1])

\* The pairs a layer holds after the incoming entries were merged by the rule
\* "skip an entry if and only if its pair is held already".
RECURSIVE ExactPairs(_, _)
ExactPairs(pairs, rest) ==
  IF rest = << >> THEN pairs
  ELSE LET entry == Head(rest)
       IN  IF ~ HasText(entry.answer) THEN ExactPairs(pairs, Tail(rest))
           ELSE IF \E i \in DOMAIN pairs :
                     SamePairExact(pairs[i][1], pairs[i][2],
                                   entry.question, entry.answer[1])
                THEN ExactPairs(pairs, Tail(rest))
                ELSE ExactPairs(Append(pairs, << entry.question, entry.answer[1] >>),
                                Tail(rest))

PairsOf(entries) ==
  [ i \in DOMAIN entries |-> << entries[i].question, entries[i].answer >> ]

\* C24 - the skip rule is exact: after a merge each layer holds the pairs it
\* held and, in their order, the incoming pairs with a non-empty answer that
\* no entry held or appended before them has, ignoring case; pairs with ':'
\* in them and a null against an empty question are different pairs.
C24_ExactSkip ==
  merges >= 1 =>
    \A n \in DOMAIN layers :
      PairsOf(record.psychoTree[layers[n]])
        = ExactPairs(PairsOf(prior.psychoTree[layers[n]]),
                     IncomingEntries(fragment, layers[n]))

\* The posts and the activities the update carries.
IncomingPosts(update) ==
  IF update.social = None THEN << >>
  ELSE IF update.social[1].instagram = None THEN << >>
  ELSE IF update.social[1].instagram[1].posts = None THEN << >>
  ELSE update.social[1].instagram[1].posts[1]
IncomingActivities(update) ==
  IF update.social = None THEN << >>
  ELSE IF update.social[1].linkedin = None THEN << >>
  ELSE IF update.social[1].linkedin[1].activities = None THEN << >>
  ELSE update.social[1].linkedin[1].activities[1]

\* The positions of the incoming items that are accepted: the item has a
\* text, and its lower-cased text is neither in the stored list nor the text
\* of an earlier incoming item.
AcceptedItems(stored, incoming) ==
  { i \in DOMAIN incoming :
      /\ HasText(incoming[i].text)
      /\ toLowerCase(incoming[i].text[1]) \notin TextKeys(stored)
      /\ \A j \in 1..(i - 1) :
           HasText(incoming[j].text)
             => toLowerCase(incoming[j].text[1]) # toLowerCase(incoming[i].text[1]) }

\* The same for the entries of a layer, by the key of the entry.
AcceptedEntries(stored, incoming) ==
  { i \in DOMAIN incoming :
      /\ HasText(incoming[i].answer)
      /\ EntryKey(incoming[i].question, incoming[i].answer[1]) \notin EntryKeys(stored)
      /\ \A j \in 1..(i - 1) :
           HasText(incoming[j].answer)
             => EntryKey(incoming[j].question, incoming[j].answer[1])
                  # EntryKey(incoming[i].question, incoming[i].answer[1]) }

\* The list after the merge is the list before it followed by the accepted
\* incoming items, in their order, with identifiers that differ.
ItemsAppended(old, new, incoming) ==
  LET accepted == SetToSeq(AcceptedItems(old, incoming))
  IN  /\ IsPrefix(old, new)
      /\ Len(new) = Len(old) + Len(accepted)
      /\ \A n \in DOMAIN accepted :
           /\ new[Len(old) + n].text = incoming[accepted[n]].text[1]
           /\ new[Len(old) + n].date = OrNull(incoming[accepted[n]].date)
           /\ new[Len(old) + n].url = OrNull(incoming[accepted[n]].url)
      /\ \A i, j \in DOMAIN new : i # j => new[i].id # new[j].id

EntriesAppended(old, new, incoming) ==
  LET accepted == SetToSeq(AcceptedEntries(old, incoming))
  IN  /\ IsPrefix(old, new)
      /\ Len(new) = Len(old) + Len(accepted)
      /\ \A n \in DOMAIN accepted :
           /\ new[Len(old) + n].question = incoming[accepted[n]].question
           /\ new[Len(old) + n].answer = incoming[accepted[n]].answer[1]
      /\ \A i, j \in DOMAIN new : i # j => new[i].id # new[j].id

\* C25 - merge loses no history: after applyMemoryUpdate each of the six
\* lists is the list before the call, unchanged, followed by the accepted
\* incoming items in the order of the update; nothing is removed, edited or
\* reordered.
C25_NoHistoryLost ==
  merges >= 1 =>
    /\ ItemsAppended(prior.social.instagram.posts, record.social.instagram.posts,
                     IncomingPosts(fragment))
    /\ ItemsAppended(prior.social.linkedin.activities,
                     record.social.linkedin.activities,
                     IncomingActivities(fragment))
    /\ \A n \in DOMAIN layers :
         EntriesAppended(prior.psychoTree[layers[n]], record.psychoTree[layers[n]],
                         IncomingEntries(fragment, layers[n]))

\* An update with two posts added one of them behind the post the list held.
C25_Witness ==
  /\ merges >= 2
  /\ Len(IncomingPosts(fragment)) = 2
  /\ Len(prior.social.instagram.posts) = 1
  /\ Len(record.social.instagram.posts) = 2
  /\ record.social.instagram.posts[1] = prior.social.instagram.posts[1]
  /\ record.social.instagram.posts[2].text = yo

\* The transcript holds the turn that call c appended.
HasTurnOf(transcript, c) ==
  \E i \in DOMAIN transcript : transcript[i].content = c

\* C26 - colliding identifiers: two updateMemory calls whose raw identifiers
\* differ and sanitize to one key are never inside fn together, and when both
\* have succeeded the record the later one returned, and the record stored
\* for the key, hold the turns of both.
C26_CollidingIds ==
  \A c, d \in Calls :
    ( /\ c # d
      /\ kind[c] = "update" /\ kind[d] = "update"
      /\ sid[c] # sid[d]
      /\ KeyOf(c) = KeyOf(d) )
    => /\ ~ (Critical(c) /\ Critical(d))
       /\ ( /\ pc[c] = "done" /\ result[c].status = "ok"
            /\ pc[d] = "done" /\ result[d].status = "ok" )
          => /\ HasTurnOf(result[c].data.transcript, d)
                  \/ HasTurnOf(result[d].data.transcript, c)
             /\ HasTurnOf(lastStored[KeyOf(c)].data.transcript, c)
             /\ HasTurnOf(lastStored[KeyOf(c)].data.transcript, d)

\* Calls with the identifiers "a" and "a/" have overlapped and both succeeded.
C26_Witness ==
  \E c, d \in Calls :
    /\ kind[c] = "update" /\ kind[d] = "update"
    /\ sid[c] = << "a" >> /\ sid[d] = << "a", "/" >>
    /\ overlapped[KeyOf(c)]
    /\ pc[c] = "done" /\ result[c].status = "ok"
    /\ pc[d] = "done" /\ result[d].status = "ok"

\* C30 - a successful updateMemory call: in the step in which the call's
\* write completes and its lock is released, the file of the key holds the
\* record the caller receives, field by field; that record is the record the
\* updater returned (the loaded record with the call's turn appended) with
\* updatedAt set to the reading of the clock taken after the updater.
C30_CommitStep ==
  \A c \in Calls :
    ( /\ kind[c] = "update"
      /\ pc[c] = "writeFinish" /\ pc'[c] = "done"
      /\ fnOutcome'[c] = "ok" )
    => /\ nextResolved'[c]
       /\ result'[c].status = "ok"
       /\ result'[c].data = mem[c]
       /\ file'[KeyOf(c)].status = "ok"
       /\ file'[KeyOf(c)].data = result'[c].data
       /\ mem[c].updatedAt >= loaded[c].updatedAt
       /\ mem[c].updatedAt <= now
       /\ Len(mem[c].transcript) = Len(loaded[c].transcript) + 1
       /\ mem[c].transcript[Len(mem[c].transcript)].content = c
       /\ [ mem[c] EXCEPT !.updatedAt = loaded[c].updatedAt,
                          !.transcript = loaded[c].transcript ] = loaded[c]

C30_WholeRecordPersisted == [][C30_CommitStep]_vars

\* A call has committed a record with a later time stamp over a stored one,
\* and the file holds what the call returned.
C30_Witness ==
  \E c \in Calls :
    /\ kind[c] = "update"
    /\ pc[c] = "done" /\ result[c].status = "ok"
    /\ result[c].data.updatedAt > result[c].data.createdAt
    /\ Len(result[c].data.transcript) = 2
    /\ file[KeyOf(c)].status = "ok"
    /\ file[KeyOf(c)].data = result[c].data

\* C23 - bounded lock wait: a call that waits for the lock of its key does
\* not wait for ever: it is admitted, or its wait ends with a failure, also
\* when the call that holds the lock never completes.
C23_BoundedWait ==
  \A c \in Calls :
    (kind[c] = "update" /\ pc[c] = "await") ~> (pc[c] # "await")

\* C29 - no starvation: when every operation run under the lock terminates,
\* every updateMemory call that waits eventually starts its fn, and every
\* updateMemory call eventually completes.
C29_NoStarvation ==
  \A c \in Calls :
    /\ (kind[c] = "update" /\ pc[c] = "await") ~> (ran[c] = 1)
    /\ (kind[c] = "update" /\ pc[c] # "done") ~> (pc[c] = "done")

\* Every call of the run was for one key, a call has failed, and a call that
\* had to wait has completed.
C29_Witness ==
  \E k \in Keys :
    /\ overlapped[k]
    /\ Len(completed[k]) = MaxCalls
    /\ \E i \in 1..(MaxCalls - 1) : result[completed[k][i]].status = "fail"
    /\ result[completed[k][MaxCalls]].status = "ok"

\* C22 - applyMemoryUpdate never fails: no call throws, whatever the update
\* holds, and after a call every incoming post and activity with a text and
\* every incoming entry with an answer is in its list, whatever items without
\* text or answer stand next to it.
C22_NeverFails ==
  /\ ~ failed
  /\ merges >= 1 =>
       /\ \A i \in DOMAIN IncomingPosts(fragment) :
            HasText(IncomingPosts(fragment)[i].text)
              => toLowerCase(IncomingPosts(fragment)[i].text[1])
                   \in TextKeys(record.social.instagram.posts)
       /\ \A i \in DOMAIN IncomingActivities(fragment) :
            HasText(IncomingActivities(fragment)[i].text)
              => toLowerCase(IncomingActivities(fragment)[i].text[1])
                   \in TextKeys(record.social.linkedin.activities)
       /\ \A n \in DOMAIN layers :
            \A i \in DOMAIN IncomingEntries(fragment, layers[n]) :
              LET entry == IncomingEntries(fragment, layers[n])[i]
              IN  HasText(entry.answer)
                    => EntryKey(entry.question, entry.answer[1])
                         \in EntryKeys(record.psychoTree[layers[n]])

\* C21 - in every persisted record, a lastFollowup whose targetLayer is roots
\* implies that leaves and branches hold at least three entries together.
C21_RootsGate ==
  \A k \in Keys :
    (file[k].status = "ok" /\ file[k].data.lastFollowup # None)
      => (file[k].data.lastFollowup[1].targetLayer = "roots"
            => Len(file[k].data.psychoTree.leaves)
                 + Len(file[k].data.psychoTree.branches) >= 3)

\* C28 - the layer counts given to the follow-up step of a request are the
\* layer counts of the record that the request's locked update loads.
C28_CountsOfLoadedRecord ==
  \A c \in Calls :
    (kind[c] = "update" /\ extraction[c] # None
       /\ pc[c] \in { "writeOpen", "writeFinish" })
      => layerCounts[c] = Some(countLayers(loaded[c]))

\* C27 - every analyze-answer request whose file operations succeed appends
\* exactly one turn with its text, whatever the extraction and follow-up steps
\* left; the turn, the merge and lastFollowup are in the one record that the
\* request's locked update writes.
C27_OneTurnPerRequest ==
  \A c \in Calls :
    (kind[c] = "update" /\ extraction[c] # None) =>
      /\ pc[c] \in { "writeOpen", "writeFinish" } =>
           \E t \in 0..MaxClock :
             mem[c] = [ analyzeUpdater(c, loaded[c], t) EXCEPT !.updatedAt = t ]
      /\ (pc[c] = "done" /\ fnOutcome[c] # "fail") =>
           /\ result[c].status = "ok"
           /\ Cardinality({ i \in DOMAIN result[c].data.transcript :
                              result[c].data.transcript[i].content = c })
                = 1
           /\ result[c].data.lastFollowup = followup[c]

\* C31 - applyMemoryUpdate leaves user.id, transcript, lastFollowup and
\* createdAt as they were; appendTranscriptEntry puts the given entry, as
\* given, at the end of transcript and leaves every other field as it was.
C31_MutatorFrames ==
  /\ (turn = None /\ merges >= 1) =>
       /\ record.user.id = prior.user.id
       /\ record.transcript = prior.transcript
       /\ record.lastFollowup = prior.lastFollowup
       /\ record.createdAt = prior.createdAt
  /\ turn # None =>
       /\ Len(record.transcript) = Len(prior.transcript) + 1
       /\ SubSeq(record.transcript, 1, Len(prior.transcript)) = prior.transcript
       /\ record.transcript[Len(record.transcript)] = turn[1]
       /\ [ record EXCEPT !.transcript = prior.transcript ] = prior

\* A merge changed a record that holds turns, one of them appended after an
\* earlier merge had changed the record.
C31_Witness ==
  /\ turn = None
  /\ merges = 2
  /\ record # prior
  /\ Len(record.transcript) >= 1
  /\ record.psychoTree # createEmptyMemory(<< "a" >>, 0).psychoTree

====
